---- MODULE Spec2Model ----
(***************************************************************************)
(* ssh-agent-mux: the multiplexing session handler (src/src/lib.rs).       *)
(*                                                                         *)
(* One step of a session is the code that runs between two suspension      *)
(* points of the single-threaded runtime (main.rs:29): the resolution of   *)
(* one await (the cache guard, a connect, an upstream call) followed by    *)
(* everything up to the next await.                                        *)
(***************************************************************************)
EXTENDS Integers, Sequences, FiniteSets, TLC

\* ------------------------------------------------------------------ bounds
MaxRoster == 2
MaxBroadcast == 3
MaxAgents == 2
MaxRuns == 2

Sessions == {"s1", "s2"}
Paths == {"A", "B"}
Keys == {"K1", "K2", "K3"}
Passphrases == {"p1", "p2"}
TestPassphrase == "p1"
NoPath == "-"
NoLock == "-"
NoSession == "-"
NoName == "-"
NoCache == 0
AgentNames == <<"n1", "n2", "n3", "n4", "n5">>
SessionBind == "session-bind@openssh.com"
ExtensionNames == {"query", SessionBind, "other@example.com"}

VARIABLES
    socket_paths,     \* MuxAgent.socket_paths: the roster, in configuration order
    known_keys,       \* MuxAgent.known_keys: set of <<pubkey, path>> entries
    guard,            \* owner of the known_keys mutex, NoSession when free
    reachable,        \* upstream sockets that currently accept and answer
    agent_keys,       \* identities held by each upstream agent, in its order
    agent_lock,       \* passphrase an upstream is locked with, NoLock if not
    pc,               \* per session: the await it is suspended at
    op,               \* per session: the request being served
    req,              \* per session: its argument (public key or passphrase)
    stage,            \* per session: refresh / forward / broadcast
    idx,              \* per session: position of the loop over socket_paths
    identities,       \* per session: refresh_identities' `identities` vector
    agent_sock_path,  \* per session: sign's `agent_sock_path`
    result,           \* per session: the value returned to the client
    trace,            \* per session: what the current request logged
    missed,           \* history: upstreams some refresh pass has skipped
    step,             \* the lock/unlock integration test: calls completed
    keys_before,      \* the lock/unlock integration test: `keys_before`
    added_keys_sock,  \* MuxAgent.added_keys_sock, NoPath when None
    session_bind_suceeded,  \* per session: extension's flag
    driver,           \* main: where the driver loop stands
    config,           \* main: the Config it holds
    sock_file,        \* the file at the listen path: absent, stale, other, ours
    this_cache,       \* the cache `this` of the current run was built with
    caches,           \* history: caches created since the process started
    cache_of          \* per session: the cache its clone of MuxAgent points to

vars == <<socket_paths, known_keys, guard, reachable, agent_keys, agent_lock,
          pc, op, req, stage, idx, identities, agent_sock_path, result, trace,
          missed, step, keys_before, added_keys_sock, session_bind_suceeded,
          driver, config, sock_file, this_cache, caches, cache_of>>

fwd == <<added_keys_sock, session_bind_suceeded>>

process == <<driver, config, sock_file, this_cache, caches, cache_of>>

env == <<reachable, agent_keys, agent_lock>>

\* --------------------------------------------------------------- sequences
RECURSIVE SeqsUpTo(_, _)
SeqsUpTo(S, n) ==
    IF n = 0 THEN {<<>>}
    ELSE LET prev == SeqsUpTo(S, n - 1)
         IN  prev \cup {Append(q, x) : q \in {p \in prev : Len(p) = n - 1}, x \in S}

Range(q) == {q[i] : i \in 1..Len(q)}

Count(q, x) == Cardinality({i \in 1..Len(q) : q[i] = x})

\* -------------------------------------------------------- results and errors
NoResult == [tag |-> "none", ids |-> <<>>, err |-> "-", by |-> NoPath]
OkIds(ids) == [tag |-> "Ok", ids |-> ids, err |-> "-", by |-> NoPath]
OkUnit == [tag |-> "Ok", ids |-> <<>>, err |-> "-", by |-> NoPath]
OkSignature(u) == [tag |-> "Ok", ids |-> <<>>, err |-> "-", by |-> u]
Err(e) == [tag |-> "Err", ids |-> <<>>, err |-> e, by |-> NoPath]
OkNone == [tag |-> "Ok", ids |-> <<>>, err |-> "-", by |-> NoPath]
OkQueryResponse == [tag |-> "Ok", ids |-> <<SessionBind>>, err |-> "-", by |-> NoPath]

ConnectErrors == {"connect_timed_out", "io", "connect_failed"}
RequestTimedOut == "request_timed_out"
UpstreamFailure == "upstream_failure"
NoAgentFound == "no_agent_found"
Failure == "failure"

Contact(i, u, call, out, ids) ==
    [pos |-> i, sock |-> u, call |-> call, out |-> out, ids |-> ids]

\* ------------------------------------------------------------ the cache map
\* A clear that leaves the entries in place
HashMapClearForgotten == known_keys

HashMapClear == {}

\* An insert that keeps the entry already there
HashMapInsertKeepFirst(m, k, v) ==
    IF \E e \in m : e[1] = k THEN m ELSE m \cup {<<k, v>>}

HashMapInsert(m, k, v) == {e \in m : e[1] # k} \cup {<<k, v>>}

HashMapContainsKey(m, k) == \E e \in m : e[1] = k

HashMapGet(m, k) ==
    IF HashMapContainsKey(m, k) THEN (CHOOSE e \in m : e[1] = k)[2] ELSE NoPath

\* Only the first identity of an upstream's answer is recorded
InsertHead(m, ids, u) ==
    IF ids = <<>> THEN m ELSE HashMapInsert(m, Head(ids), u)

RECURSIVE InsertAll(_, _, _)
InsertAll(m, ids, u) ==
    IF ids = <<>> THEN m
    ELSE InsertAll(HashMapInsert(m, Head(ids), u), Tail(ids), u)

\* --------------------------------------------------------- upstream agents
\* An upstream agent that is locked lists no identities and refuses to sign.
AgentIdentities(u) == IF agent_lock[u] = NoLock THEN agent_keys[u] ELSE <<>>

AgentSigns(u, k) == agent_lock[u] = NoLock /\ k \in Range(agent_keys[u])

AgentLocks(u, p) == agent_lock[u] = NoLock

AgentUnlocks(u, p) == agent_lock[u] = p

\* An upstream agent that is locked refuses a new identity; one that holds
\* the key already keeps one copy of it.
AgentAdds(u, k) == agent_lock[u] = NoLock

AgentAdd(held, k) == IF k \in Range(held) THEN held ELSE Append(held, k)

\* What an upstream agent may answer to session-bind@openssh.com: success
\* without or with a payload, unsupported, or another error
AgentBindAnswers == {"ok", "ok_payload", Failure, UpstreamFailure}

\* The scenario with two upstreams: A holds K1, B holds K2.
ScenarioKeys == [A |-> <<"K1">>, B |-> <<"K2">>]

\* A and B both hold K2; K1 and K3 have one holder each.
HeldKeys == [A |-> <<"K1", "K2">>, B |-> <<"K2", "K3">>]

\* ------------------------------------------------------- the configuration
\* cli.rs: the [[agents]] tables of the file and its add-new-keys-to
Names(n) == {AgentNames[i] : i \in 1..n}

AgentConfigs == [name : Names(MaxAgents), socket_path : Paths, enabled : BOOLEAN]

Configs ==
    [agents : SeqsUpTo(AgentConfigs, MaxAgents),
     add_new_keys_to : Names(MaxAgents + 1) \cup {NoName}]

\* seen_names.insert(&agent.name) returns false (cli.rs:135-143)
DuplicateAgentName(cfg) ==
    \E i, j \in DOMAIN cfg.agents : i < j /\ cfg.agents[i].name = cfg.agents[j].name

\* config.agents.iter().find(|a| a.name == *name) (cli.rs:147, 177-180):
\* the position of the first agent of that name, 0 when there is none
FindAgent(cfg, name) ==
    LET hits == {i \in DOMAIN cfg.agents : cfg.agents[i].name = name}
    IN  IF hits = {} THEN 0 ELSE CHOOSE i \in hits : \A j \in hits : i <= j

\* A validation that accepts a target that names a disabled agent
AddNewKeysToKnown(cfg) ==
    \/ cfg.add_new_keys_to = NoName
    \/ FindAgent(cfg, cfg.add_new_keys_to) # 0

\* add-new-keys-to references an existing, enabled agent (cli.rs:145-162)
AddNewKeysToValid(cfg) ==
    \/ cfg.add_new_keys_to = NoName
    \/ LET i == FindAgent(cfg, cfg.add_new_keys_to)
       IN  i # 0 /\ cfg.agents[i].enabled

\* Config::parse returns Ok(config) (cli.rs:134-164)
ConfigAccepted(cfg) == ~DuplicateAgentName(cfg) /\ AddNewKeysToValid(cfg)

\* Config::enabled_agent_socket_paths (cli.rs:167-173)
RECURSIVE EnabledPaths(_)
EnabledPaths(agents) ==
    IF agents = <<>> THEN <<>>
    ELSE (IF Head(agents).enabled THEN <<Head(agents).socket_path>> ELSE <<>>)
         \o EnabledPaths(Tail(agents))

enabled_agent_socket_paths(cfg) == EnabledPaths(cfg.agents)

\* Config::added_keys_socket_path (cli.rs:175-182)
added_keys_socket_path(cfg) ==
    IF cfg.add_new_keys_to = NoName \/ FindAgent(cfg, cfg.add_new_keys_to) = 0
    THEN NoPath
    ELSE cfg.agents[FindAgent(cfg, cfg.add_new_keys_to)].socket_path

\* A configuration whose enabled agents are the roster and whose
\* add-new-keys-to names the first agent at the target path
ConfigOf(roster, target) ==
    LET hits == {i \in DOMAIN roster : roster[i] = target}
    IN  [agents |-> [i \in DOMAIN roster |->
                        [name |-> AgentNames[i], socket_path |-> roster[i],
                         enabled |-> TRUE]],
         add_new_keys_to |->
             IF hits = {} THEN NoName
             ELSE AgentNames[CHOOSE i \in hits : \A j \in hits : i <= j]]

TypeOK ==
    /\ socket_paths \in Seq(Paths)
    /\ known_keys \subseteq (Keys \X Paths)
    /\ guard \in Sessions \cup {NoSession}
    /\ reachable \subseteq Paths
    /\ agent_lock \in [Paths -> Passphrases \cup {NoLock}]
    /\ pc \in [Sessions -> {"idle", "lock_owned", "connect", "request", "done",
                            "bind_connect", "bind_request",
                            "add_connect", "add_request"}]
    /\ op \in [Sessions -> {"none", "request_identities", "sign", "lock", "unlock",
                            "extension", "add_identity"}]
    /\ stage \in [Sessions -> {"none", "refresh", "forward", "broadcast"}]
    /\ idx \in [Sessions -> 0..Len(socket_paths)]
    /\ added_keys_sock \in Paths \cup {NoPath}
    /\ session_bind_suceeded \in [Sessions -> BOOLEAN]
    /\ driver \in {"parse", "select", "listen", "exit_ok", "parse_failed",
                   "bind_failed", "serve_failed"}
    /\ sock_file \in {"absent", "stale", "other", "ours"}
    /\ caches \in 0..MaxRuns
    /\ this_cache \in 0..MaxRuns
    /\ cache_of \in [Sessions -> 0..MaxRuns]

\* No session is serving a request; the upstream agents hold `held` and are
\* unlocked, those of one of the sets `ups` are reachable.
IdleAmong(held, ups) ==
    /\ session_bind_suceeded = [s \in Sessions |-> FALSE]
    /\ guard = NoSession
    /\ reachable \in ups
    /\ agent_keys = held
    /\ agent_lock = [u \in Paths |-> NoLock]
    /\ pc = [s \in Sessions |-> "idle"]
    /\ op = [s \in Sessions |-> "none"]
    /\ req = [s \in Sessions |-> "-"]
    /\ stage = [s \in Sessions |-> "none"]
    /\ idx = [s \in Sessions |-> 0]
    /\ identities = [s \in Sessions |-> <<>>]
    /\ agent_sock_path = [s \in Sessions |-> NoPath]
    /\ result = [s \in Sessions |-> NoResult]
    /\ trace = [s \in Sessions |-> <<>>]
    /\ missed = {}
    /\ step = 0
    /\ keys_before = <<>>

Idle(held) == IdleAmong(held, {Paths})

\* The multiplexer listening: MuxAgent::run (lib.rs:246-252) was given one of
\* the rosters and one of the targets, every session is connected.
ListeningWith(rosters, targets, held) ==
    /\ socket_paths \in rosters
    /\ added_keys_sock \in targets
    /\ added_keys_sock \in Range(socket_paths) \cup {NoPath}
    /\ config = ConfigOf(socket_paths, added_keys_sock)
    /\ driver = "listen"
    /\ sock_file = "ours"
    /\ known_keys = {}
    /\ this_cache = 1
    /\ caches = 1
    /\ cache_of = [s \in Sessions |-> 1]
    /\ Idle(held)

Listening(rosters, targets) == ListeningWith(rosters, targets, HeldKeys)

\* MuxAgent::run (lib.rs:246-251) with one of the given rosters and no target
InitWith(rosters) == Listening(rosters, {NoPath})

Init == InitWith(SeqsUpTo(Paths, MaxRoster))

\* ------------------------------------------------------ code between awaits
\* The upstream a suspended session is connecting or talking to
Target(s) ==
    IF stage[s] = "forward" THEN agent_sock_path[s] ELSE socket_paths[idx[s]]

\* Its position in the roster; the owner sign forwards to has none
Position(s) == IF stage[s] = "forward" THEN 0 ELSE idx[s]

\* The client call made on that upstream
CallOf(s) == IF stage[s] = "refresh" THEN "request_identities" ELSE op[s]

\* The new identities put in front of the vector
ExtendInFront(ids, more) == more \o ids

\* identities.extend(agent_identities) (lib.rs:358)
Extend(ids, more) == ids \o more

\* log::debug!("Refreshing identities") (lib.rs:313)
RefreshingIdentities == Contact(0, NoPath, "refresh_identities", "begin", <<>>)

\* The request returns `r` to the client.
Finish(s, r, tr) ==
    /\ pc' = [pc EXCEPT ![s] = "done"]
    /\ result' = [result EXCEPT ![s] = r]
    /\ trace' = [trace EXCEPT ![s] = tr]

\* A sign that falls back on the first upstream when the key has no owner
SignWithFallback(s, maybe_agent, tr) ==
    IF maybe_agent # NoPath \/ socket_paths # <<>>
    THEN /\ pc' = [pc EXCEPT ![s] = "connect"]
         /\ stage' = [stage EXCEPT ![s] = "forward"]
         /\ agent_sock_path' = [agent_sock_path EXCEPT ![s] =
                IF maybe_agent # NoPath THEN maybe_agent ELSE socket_paths[1]]
         /\ trace' = [trace EXCEPT ![s] = tr]
         /\ UNCHANGED <<result, idx>>
    ELSE /\ pc' = [pc EXCEPT ![s] = "done"]
         /\ result' = [result EXCEPT ![s] = Err(NoAgentFound)]
         /\ trace' = [trace EXCEPT ![s] = tr]
         /\ UNCHANGED <<stage, agent_sock_path, idx>>

\* sign (lib.rs:39-64): with an owner, connect to it; without one, fail.
SignWith(s, maybe_agent, tr) ==
    IF maybe_agent # NoPath
    THEN /\ pc' = [pc EXCEPT ![s] = "connect"]
         /\ stage' = [stage EXCEPT ![s] = "forward"]
         /\ agent_sock_path' = [agent_sock_path EXCEPT ![s] = maybe_agent]
         /\ trace' = [trace EXCEPT ![s] = tr]
         /\ UNCHANGED <<result, idx>>
    ELSE /\ Finish(s, Err(NoAgentFound), tr)
         /\ UNCHANGED <<stage, agent_sock_path, idx>>

\* A pass that leaves out the upstreams an earlier pass has skipped
NotMissed(u) == u \notin missed

RefreshTargetsNotMissed == SelectSeq(socket_paths, NotMissed)

\* The upstreams one refresh pass iterates over (lib.rs:314)
RefreshTargets == socket_paths

\* A pass after which sign keeps the guard while it talks to the owner
RefreshLoopKeepsGuard(s, i, kk, ids, tr) ==
    /\ known_keys' = kk
    /\ identities' = [identities EXCEPT ![s] = ids]
    /\ IF i <= Len(RefreshTargets)
       THEN /\ guard' = s
            /\ pc' = [pc EXCEPT ![s] = "connect"]
            /\ stage' = [stage EXCEPT ![s] = "refresh"]
            /\ idx' = [idx EXCEPT ![s] = i]
            /\ trace' = [trace EXCEPT ![s] = tr]
            /\ UNCHANGED <<result, agent_sock_path>>
       ELSE IF op[s] = "request_identities"
       THEN /\ guard' = NoSession
            /\ Finish(s, OkIds(ids), tr)
            /\ UNCHANGED <<stage, idx, agent_sock_path>>
       ELSE /\ guard' = s
            /\ SignWith(s, HashMapGet(kk, req[s]), tr)

\* refresh_identities' loop (lib.rs:314-361) resumed at position i with the
\* cache kk and the vector ids. Past the last upstream it returns Ok(ids) to
\* request_identities (lib.rs:32) or to get_agent_sock_for_pubkey
\* (lib.rs:298-301); both drop the guard on return.
RefreshLoop(s, i, kk, ids, tr) ==
    /\ known_keys' = kk
    /\ identities' = [identities EXCEPT ![s] = ids]
    /\ IF i <= Len(RefreshTargets)
       THEN /\ guard' = s
            /\ pc' = [pc EXCEPT ![s] = "connect"]
            /\ stage' = [stage EXCEPT ![s] = "refresh"]
            /\ idx' = [idx EXCEPT ![s] = i]
            /\ trace' = [trace EXCEPT ![s] = tr]
            /\ UNCHANGED <<result, agent_sock_path>>
       ELSE /\ guard' = NoSession
            /\ IF op[s] = "request_identities"
               THEN /\ Finish(s, OkIds(ids), tr)
                    /\ UNCHANGED <<stage, idx, agent_sock_path>>
               ELSE SignWith(s, HashMapGet(kk, req[s]), tr)

\* refresh_identities' prologue (lib.rs:310-313)
RefreshIdentities(s) ==
    RefreshLoop(s, 1, HashMapClear, <<>>, Append(trace[s], RefreshingIdentities))

\* A broadcast that returns success after its first upstream
BroadcastStopsEarly(s, i, tr) ==
    IF i <= Len(socket_paths) /\ i <= 1
    THEN /\ pc' = [pc EXCEPT ![s] = "connect"]
         /\ stage' = [stage EXCEPT ![s] = "broadcast"]
         /\ idx' = [idx EXCEPT ![s] = i]
         /\ trace' = [trace EXCEPT ![s] = tr]
         /\ UNCHANGED result
    ELSE /\ pc' = [pc EXCEPT ![s] = "done"]
         /\ result' = [result EXCEPT ![s] = OkUnit]
         /\ trace' = [trace EXCEPT ![s] = tr]
         /\ UNCHANGED <<stage, idx>>

\* lock's and unlock's loop (lib.rs:122-140, 145-163) resumed at position i
BroadcastLoop(s, i, tr) ==
    IF i <= Len(socket_paths)
    THEN /\ pc' = [pc EXCEPT ![s] = "connect"]
         /\ stage' = [stage EXCEPT ![s] = "broadcast"]
         /\ idx' = [idx EXCEPT ![s] = i]
         /\ trace' = [trace EXCEPT ![s] = tr]
         /\ UNCHANGED result
    ELSE /\ Finish(s, OkUnit, tr)
         /\ UNCHANGED <<stage, idx>>

\* A failed sign that is tried again on another upstream of the roster
UpstreamFailedTriesNext(s, e) ==
    LET tr == Append(trace[s], Contact(Position(s), Target(s), CallOf(s), e, <<>>))
        others == Range(socket_paths) \ {Target(s)}
    IN  IF stage[s] = "refresh"
        THEN RefreshLoop(s, idx[s] + 1, known_keys, identities[s], tr)
        ELSE IF stage[s] = "forward" /\ others # {} /\ Len(trace[s]) < 2
        THEN /\ pc' = [pc EXCEPT ![s] = "connect"]
             /\ agent_sock_path' =
                    [agent_sock_path EXCEPT ![s] = CHOOSE v \in others : TRUE]
             /\ trace' = [trace EXCEPT ![s] = tr]
             /\ UNCHANGED <<known_keys, guard, identities, stage, idx, result>>
        ELSE /\ pc' = [pc EXCEPT ![s] = "done"]
             /\ result' = [result EXCEPT ![s] = Err(e)]
             /\ trace' = [trace EXCEPT ![s] = tr]
             /\ UNCHANGED <<known_keys, guard, identities, stage, idx,
                            agent_sock_path>>

\* A failed lock or unlock that is skipped, as refresh_identities skips
UpstreamFailedContinues(s, e) ==
    LET tr == Append(trace[s], Contact(Position(s), Target(s), CallOf(s), e, <<>>))
    IN  CASE stage[s] = "refresh" ->
               RefreshLoop(s, idx[s] + 1, known_keys, identities[s], tr)
          [] stage[s] = "broadcast" ->
               /\ IF idx[s] + 1 <= Len(socket_paths)
                  THEN /\ pc' = [pc EXCEPT ![s] = "connect"]
                       /\ idx' = [idx EXCEPT ![s] = idx[s] + 1]
                       /\ trace' = [trace EXCEPT ![s] = tr]
                       /\ UNCHANGED result
                  ELSE /\ pc' = [pc EXCEPT ![s] = "done"]
                       /\ result' = [result EXCEPT ![s] = OkUnit]
                       /\ trace' = [trace EXCEPT ![s] = tr]
                       /\ UNCHANGED idx
               /\ UNCHANGED <<known_keys, guard, identities, stage, agent_sock_path>>
          [] OTHER ->
               /\ pc' = [pc EXCEPT ![s] = "done"]
               /\ result' = [result EXCEPT ![s] = Err(e)]
               /\ trace' = [trace EXCEPT ![s] = tr]
               /\ UNCHANGED <<known_keys, guard, identities, stage, idx,
                              agent_sock_path>>

\* What a failed upstream contact does to the request: refresh_identities
\* skips the upstream (lib.rs:317-323, 332-346); sign, lock and unlock return
\* the error (lib.rs:46-57, 123-134, 146-157).
UpstreamFailed(s, e) ==
    LET tr == Append(trace[s], Contact(Position(s), Target(s), CallOf(s), e, <<>>))
    IN  IF stage[s] = "refresh"
        THEN RefreshLoop(s, idx[s] + 1, known_keys, identities[s], tr)
        ELSE /\ Finish(s, Err(e), tr)
             /\ UNCHANGED <<known_keys, guard, identities, stage, idx,
                            agent_sock_path>>

\* What an upstream's answer does to the request
UpstreamAnswered(s, u, ids) ==
    LET tr == Append(trace[s], Contact(Position(s), u, CallOf(s), "ok", ids))
    IN  CASE stage[s] = "refresh" ->
               RefreshLoop(s, idx[s] + 1, InsertAll(known_keys, ids, u),
                           Extend(identities[s], ids), tr)
          [] stage[s] = "forward" ->
               /\ Finish(s, OkSignature(u), tr)
               /\ UNCHANGED <<known_keys, guard, identities, stage, idx,
                              agent_sock_path>>
          [] stage[s] = "broadcast" ->
               /\ BroadcastLoop(s, idx[s] + 1, tr)
               /\ UNCHANGED <<known_keys, guard, identities, agent_sock_path>>

\* ------------------------------------------------------- incoming requests
RequestIdentities(s) ==
    /\ pc[s] = "idle"
    /\ pc' = [pc EXCEPT ![s] = "lock_owned"]
    /\ op' = [op EXCEPT ![s] = "request_identities"]
    /\ UNCHANGED <<socket_paths, known_keys, guard, env, req, stage, idx,
                   identities, agent_sock_path, result, trace>>

Sign(s, k) ==
    /\ pc[s] = "idle"
    /\ pc' = [pc EXCEPT ![s] = "lock_owned"]
    /\ op' = [op EXCEPT ![s] = "sign"]
    /\ req' = [req EXCEPT ![s] = k]
    /\ UNCHANGED <<socket_paths, known_keys, guard, env, stage, idx,
                   identities, agent_sock_path, result, trace>>

\* A lock that empties the cache
LockClearsCache(s, p) ==
    /\ pc[s] = "idle"
    /\ op' = [op EXCEPT ![s] = "lock"]
    /\ req' = [req EXCEPT ![s] = p]
    /\ BroadcastLoop(s, 1, <<>>)
    /\ known_keys' = HashMapClear
    /\ UNCHANGED <<socket_paths, guard, env, identities, agent_sock_path>>

Lock(s, p) ==
    /\ pc[s] = "idle"
    /\ op' = [op EXCEPT ![s] = "lock"]
    /\ req' = [req EXCEPT ![s] = p]
    /\ BroadcastLoop(s, 1, <<>>)
    /\ UNCHANGED <<socket_paths, known_keys, guard, env, identities,
                   agent_sock_path>>

Unlock(s, p) ==
    /\ pc[s] = "idle"
    /\ op' = [op EXCEPT ![s] = "unlock"]
    /\ req' = [req EXCEPT ![s] = p]
    /\ BroadcastLoop(s, 1, <<>>)
    /\ UNCHANGED <<socket_paths, known_keys, guard, env, identities,
                   agent_sock_path>>

\* --------------------------------------------------- an await is resolved
\* A sign that refreshes whether or not the key is in the cache
GuardAcquiredAlwaysRefreshes(s) ==
    /\ pc[s] = "lock_owned"
    /\ guard = NoSession
    /\ RefreshIdentities(s)
    /\ UNCHANGED <<socket_paths, env, op, req>>

\* A lock_owned().await that returns while another session holds the guard
GuardAcquiredUnguarded(s) ==
    /\ pc[s] = "lock_owned"
    /\ IF op[s] = "sign" /\ HashMapContainsKey(known_keys, req[s])
       THEN /\ SignWith(s, HashMapGet(known_keys, req[s]), trace[s])
            /\ UNCHANGED <<known_keys, guard, identities>>
       ELSE RefreshIdentities(s)
    /\ UNCHANGED <<socket_paths, env, op, req>>

\* known_keys.lock_owned().await yields the guard (lib.rs:31, lib.rs:295);
\* on a hit get_agent_sock_for_pubkey returns at once and drops it.
GuardAcquired(s) ==
    /\ pc[s] = "lock_owned"
    /\ guard = NoSession
    /\ IF op[s] = "sign" /\ HashMapContainsKey(known_keys, req[s])
       THEN /\ SignWith(s, HashMapGet(known_keys, req[s]), trace[s])
            /\ UNCHANGED <<known_keys, guard, identities>>
       ELSE RefreshIdentities(s)
    /\ UNCHANGED <<socket_paths, env, op, req>>

\* A connect without timeout: it waits for as long as the upstream is silent
ConnectResolvedNoTimeout(s) ==
    /\ pc[s] = "connect"
    /\ Target(s) \in reachable
    /\ pc' = [pc EXCEPT ![s] = "request"]
    /\ UNCHANGED <<known_keys, guard, identities, stage, idx,
                   agent_sock_path, result, trace>>
    /\ UNCHANGED <<socket_paths, env, op, req>>

\* connect_upstream_agent's await is resolved (lib.rs:255-287)
ConnectResolved(s) ==
    /\ pc[s] = "connect"
    /\ IF Target(s) \in reachable
       THEN /\ pc' = [pc EXCEPT ![s] = "request"]
            /\ UNCHANGED <<known_keys, guard, identities, stage, idx,
                           agent_sock_path, result, trace>>
       ELSE \E e \in ConnectErrors : UpstreamFailed(s, e)
    /\ UNCHANGED <<socket_paths, env, op, req>>

\* timeout(agent_timeout, client.<call>(..)).await is resolved
\* (lib.rs:325-347, 47-57, 124-134, 147-157)
RequestResolved(s) ==
    /\ pc[s] = "request"
    /\ LET u == Target(s)
       IN  IF u \notin reachable
           THEN /\ \E e \in {RequestTimedOut, UpstreamFailure} : UpstreamFailed(s, e)
                /\ UNCHANGED env
           ELSE CASE CallOf(s) = "request_identities" ->
                      /\ UpstreamAnswered(s, u, AgentIdentities(u))
                      /\ UNCHANGED env
                  [] CallOf(s) = "sign" ->
                      /\ IF AgentSigns(u, req[s])
                         THEN UpstreamAnswered(s, u, <<>>)
                         ELSE UpstreamFailed(s, UpstreamFailure)
                      /\ UNCHANGED env
                  [] CallOf(s) = "lock" ->
                      IF AgentLocks(u, req[s])
                      THEN /\ agent_lock' = [agent_lock EXCEPT ![u] = req[s]]
                           /\ UpstreamAnswered(s, u, <<>>)
                           /\ UNCHANGED <<reachable, agent_keys>>
                      ELSE /\ UpstreamFailed(s, UpstreamFailure)
                           /\ UNCHANGED env
                  [] CallOf(s) = "unlock" ->
                      IF AgentUnlocks(u, req[s])
                      THEN /\ agent_lock' = [agent_lock EXCEPT ![u] = NoLock]
                           /\ UpstreamAnswered(s, u, <<>>)
                           /\ UNCHANGED <<reachable, agent_keys>>
                      ELSE /\ UpstreamFailed(s, UpstreamFailure)
                           /\ UNCHANGED env
    /\ UNCHANGED <<socket_paths, op, req>>

\* The reply is written to the client; the session waits for its next request.
Return(s) ==
    /\ pc[s] = "done"
    /\ pc' = [pc EXCEPT ![s] = "idle"]
    /\ op' = [op EXCEPT ![s] = "none"]
    /\ req' = [req EXCEPT ![s] = "-"]
    /\ stage' = [stage EXCEPT ![s] = "none"]
    /\ idx' = [idx EXCEPT ![s] = 0]
    /\ identities' = [identities EXCEPT ![s] = <<>>]
    /\ agent_sock_path' = [agent_sock_path EXCEPT ![s] = NoPath]
    /\ result' = [result EXCEPT ![s] = NoResult]
    /\ trace' = [trace EXCEPT ![s] = <<>>]
    /\ UNCHANGED <<socket_paths, known_keys, guard, env>>

\* ------------------------------------------------- extension, add_identity
\* What extension and add_identity leave alone
aside ==
    <<socket_paths, known_keys, guard, stage, identities, agent_sock_path,
      missed, step, keys_before, added_keys_sock, process>>

\* Every name but the query is passed on to the upstreams
ExtensionForwardsUnknown(name) == name # "query"

\* The match arm of the name that is broadcast (lib.rs:73)
ExtensionIsForwarded(name) == name = SessionBind

\* The last upstream's answer decides
SessionBindLastAnswer(b, out) == out \in {"ok", "ok_payload"}

\* session_bind_suceeded after an upstream's answer or failure (lib.rs:93-108)
SessionBindSucceeded(b, out) == b \/ out \in {"ok", "ok_payload"}

\* A broadcast that ends at the first upstream that succeeds
SessionBindLoopStopsOnSuccess(s, i, b, tr) ==
    /\ session_bind_suceeded' = [session_bind_suceeded EXCEPT ![s] = b]
    /\ IF i <= Len(socket_paths) /\ ~b
       THEN /\ pc' = [pc EXCEPT ![s] = "bind_connect"]
            /\ idx' = [idx EXCEPT ![s] = i]
            /\ trace' = [trace EXCEPT ![s] = tr]
            /\ UNCHANGED result
       ELSE /\ pc' = [pc EXCEPT ![s] = "done"]
            /\ result' = [result EXCEPT ![s] = IF b THEN OkNone ELSE Err(Failure)]
            /\ trace' = [trace EXCEPT ![s] = tr]
            /\ UNCHANGED idx

\* extension's loop (lib.rs:75-114) resumed at position i with the flag b
SessionBindLoop(s, i, b, tr) ==
    /\ session_bind_suceeded' = [session_bind_suceeded EXCEPT ![s] = b]
    /\ IF i <= Len(socket_paths)
       THEN /\ pc' = [pc EXCEPT ![s] = "bind_connect"]
            /\ idx' = [idx EXCEPT ![s] = i]
            /\ trace' = [trace EXCEPT ![s] = tr]
            /\ UNCHANGED result
       ELSE /\ Finish(s, IF b THEN OkNone ELSE Err(Failure), tr)
            /\ UNCHANGED idx

\* extension (lib.rs:67-118)
Extension(s, name) ==
    /\ pc[s] = "idle"
    /\ op' = [op EXCEPT ![s] = "extension"]
    /\ req' = [req EXCEPT ![s] = name]
    /\ IF name = "query"
       THEN /\ Finish(s, OkQueryResponse, <<>>)
            /\ UNCHANGED <<idx, session_bind_suceeded>>
       ELSE IF ExtensionIsForwarded(name)
       THEN SessionBindLoop(s, 1, FALSE, <<>>)
       ELSE /\ Finish(s, Err(Failure), <<>>)
            /\ UNCHANGED <<idx, session_bind_suceeded>>
    /\ UNCHANGED <<aside, env>>

\* One upstream of the broadcast is done with `out`; the loop goes on.
SessionBindNext(s, out) ==
    SessionBindLoop(s, idx[s] + 1,
                    SessionBindSucceeded(session_bind_suceeded[s], out),
                    Append(trace[s], Contact(idx[s], socket_paths[idx[s]],
                                             "extension", out, <<>>)))

\* extension's connect_upstream_agent is resolved (lib.rs:79-82)
BindConnectResolved(s) ==
    /\ pc[s] = "bind_connect"
    /\ IF socket_paths[idx[s]] \in reachable
       THEN /\ pc' = [pc EXCEPT ![s] = "bind_request"]
            /\ UNCHANGED <<idx, result, trace, session_bind_suceeded>>
       ELSE \E e \in ConnectErrors : SessionBindNext(s, e)
    /\ UNCHANGED <<aside, env, op, req>>

\* timeout(agent_timeout, client.extension(..)).await is resolved (lib.rs:83-108)
BindRequestResolved(s) ==
    /\ pc[s] = "bind_request"
    /\ IF socket_paths[idx[s]] \in reachable
       THEN \E out \in AgentBindAnswers : SessionBindNext(s, out)
       ELSE \E e \in {RequestTimedOut, UpstreamFailure} : SessionBindNext(s, e)
    /\ UNCHANGED <<aside, env, op, req>>

\* A target taken from the roster when none is configured
AddIdentityAlwaysConfigured == TRUE

\* `if let Some(added_keys_sock) = &self.added_keys_sock` (lib.rs:172)
AddIdentityConfigured == added_keys_sock # NoPath

\* The first upstream of the roster instead of the configured target
AddIdentityFirstOfRoster ==
    IF socket_paths # <<>> THEN socket_paths[1] ELSE added_keys_sock

\* The upstream add_identity connects to (lib.rs:178)
AddIdentityTarget == added_keys_sock

\* add_identity (lib.rs:166-194)
AddIdentity(s, k) ==
    /\ pc[s] = "idle"
    /\ op' = [op EXCEPT ![s] = "add_identity"]
    /\ req' = [req EXCEPT ![s] = k]
    /\ IF AddIdentityConfigured
       THEN /\ pc' = [pc EXCEPT ![s] = "add_connect"]
            /\ trace' = [trace EXCEPT ![s] = <<>>]
            /\ UNCHANGED result
       ELSE Finish(s, Err(Failure), <<>>)
    /\ UNCHANGED <<aside, env, idx, session_bind_suceeded>>

\* add_identity's connect_upstream_agent is resolved (lib.rs:178)
AddConnectResolved(s) ==
    /\ pc[s] = "add_connect"
    /\ IF AddIdentityTarget \in reachable
       THEN /\ pc' = [pc EXCEPT ![s] = "add_request"]
            /\ UNCHANGED <<result, trace>>
       ELSE \E e \in ConnectErrors :
                Finish(s, Err(e), Append(trace[s],
                       Contact(0, AddIdentityTarget, "add_identity", e, <<>>)))
    /\ UNCHANGED <<aside, env, op, req, idx, session_bind_suceeded>>

\* timeout(agent_timeout, client.add_identity(..)).await is resolved
\* (lib.rs:179-189)
AddRequestResolved(s) ==
    /\ pc[s] = "add_request"
    /\ LET u == AddIdentityTarget
           done(out) == Append(trace[s], Contact(0, u, "add_identity", out, <<>>))
       IN  IF u \notin reachable
           THEN /\ \E e \in {RequestTimedOut, UpstreamFailure} :
                       Finish(s, Err(e), done(e))
                /\ UNCHANGED env
           ELSE IF AgentAdds(u, req[s])
           THEN /\ agent_keys' = [agent_keys EXCEPT ![u] = AgentAdd(@, req[s])]
                /\ Finish(s, OkUnit, done("ok"))
                /\ UNCHANGED <<reachable, agent_lock>>
           ELSE /\ Finish(s, Err(UpstreamFailure), done(UpstreamFailure))
                /\ UNCHANGED env
    /\ UNCHANGED <<aside, op, req, idx, session_bind_suceeded>>

\* ------------------------------------------------------------- the driver
\* What the driver loop leaves alone: the sessions and the upstream agents
sessions_and_upstreams ==
    <<guard, env, pc, op, req, stage, idx, identities, agent_sock_path, result,
      trace, missed, step, keys_before, session_bind_suceeded>>

\* The Config before the file is read (cli.rs:78-85)
DefaultConfig == [agents |-> <<>>, add_new_keys_to |-> NoName]

\* A bind that takes over the path when the file there is stale
BindRemovesStale(file) == file \in {"absent", "stale"}

\* UnixListener::bind(&path) (lib.rs:391): the path must not exist
BindSucceeds(file) == file = "absent"

\* A release that leaves the file where it is
RemoveFileSkipped(file) == file

\* std::fs::remove_file(&self.path) (lib.rs:398)
RemoveFile(file) == "absent"

\* A cancelled run that keeps its listener
DropRunLeaksListener == sock_file

\* The run future is dropped: a listener that was bound removes its file
\* (lib.rs:395-400); a run that never bound has none.
DropRun == IF driver = "listen" THEN RemoveFile(sock_file) ELSE sock_file

\* The process is gone, and with it every session.
ProcessExit(status) ==
    /\ driver' = status
    /\ cache_of' = [s \in Sessions |-> NoCache]
    /\ UNCHANGED <<config, socket_paths, added_keys_sock, known_keys,
                   this_cache, caches>>

\* Config::parse (main.rs:33, 68; cli.rs:100-165) reads whatever the file
\* holds now; a rejected configuration ends main with the error.
ParseConfig ==
    /\ driver = "parse"
    /\ \E cfg \in Configs :
           IF ConfigAccepted(cfg)
           THEN /\ config' = cfg
                /\ driver' = "select"
                /\ UNCHANGED <<socket_paths, added_keys_sock, known_keys,
                               this_cache, caches, cache_of>>
           ELSE ProcessExit("parse_failed")
    /\ UNCHANGED <<sock_file, sessions_and_upstreams>>

\* A run whose failed bind cleans the path up on its way out
RunFailedBindRemovesFile ==
    /\ driver = "select"
    /\ caches < MaxRuns
    /\ IF BindSucceeds(sock_file)
       THEN /\ sock_file' = "ours"
            /\ socket_paths' = enabled_agent_socket_paths(config)
            /\ added_keys_sock' = added_keys_socket_path(config)
            /\ known_keys' = {}
            /\ this_cache' = caches + 1
            /\ caches' = caches + 1
            /\ driver' = "listen"
            /\ UNCHANGED <<config, cache_of>>
       ELSE /\ ProcessExit("bind_failed")
            /\ sock_file' = RemoveFile(sock_file)
    /\ UNCHANGED sessions_and_upstreams

\* The first poll of MuxAgent::run (main.rs:58-61, lib.rs:218-252): bind, build
\* `this` with a new cache, listen; or return the bind error, which ends main.
Run ==
    /\ driver = "select"
    /\ caches < MaxRuns
    /\ IF BindSucceeds(sock_file)
       THEN /\ sock_file' = "ours"
            /\ socket_paths' = enabled_agent_socket_paths(config)
            /\ added_keys_sock' = added_keys_socket_path(config)
            /\ known_keys' = {}
            /\ this_cache' = caches + 1
            /\ caches' = caches + 1
            /\ driver' = "listen"
            /\ UNCHANGED <<config, cache_of>>
       ELSE /\ ProcessExit("bind_failed")
            /\ UNCHANGED sock_file
    /\ UNCHANGED sessions_and_upstreams

\* agent::listen accepts a connection: new_session clones `this` (lib.rs:365-373)
NewSession(s) ==
    /\ driver = "listen"
    /\ cache_of[s] = NoCache
    /\ cache_of' = [cache_of EXCEPT ![s] = this_cache]
    /\ UNCHANGED <<driver, config, sock_file, socket_paths, added_keys_sock,
                   known_keys, this_cache, caches, sessions_and_upstreams>>

\* A client hangs up; its session ends.
SessionEnds(s) ==
    /\ cache_of[s] # NoCache
    /\ pc[s] = "idle"
    /\ cache_of' = [cache_of EXCEPT ![s] = NoCache]
    /\ UNCHANGED <<driver, config, sock_file, socket_paths, added_keys_sock,
                   known_keys, this_cache, caches, sessions_and_upstreams>>

\* accept fails: listen and run return the error, `res?` ends main (main.rs:61)
ServeError ==
    /\ driver = "listen"
    /\ sock_file' = DropRun
    /\ ProcessExit("serve_failed")
    /\ UNCHANGED sessions_and_upstreams

\* signal::ctrl_c() wins the select (main.rs:64)
SigInt ==
    /\ driver \in {"select", "listen"}
    /\ sock_file' = DropRun
    /\ ProcessExit("exit_ok")
    /\ UNCHANGED sessions_and_upstreams

\* sigterm.recv() wins the select (main.rs:65)
SigTerm ==
    /\ driver \in {"select", "listen"}
    /\ sock_file' = DropRun
    /\ ProcessExit("exit_ok")
    /\ UNCHANGED sessions_and_upstreams

\* sighup.recv() wins the select (main.rs:66-69): the run is dropped, then the
\* configuration is read again; sessions already accepted go on.
SigHup ==
    /\ driver \in {"select", "listen"}
    /\ caches < MaxRuns
    /\ sock_file' = DropRun
    /\ driver' = "parse"
    /\ UNCHANGED <<config, socket_paths, added_keys_sock, known_keys,
                   this_cache, caches, cache_of, sessions_and_upstreams>>

\* ------------------------------------------------------------ environment
UpstreamGoesDown(u) ==
    /\ u \in reachable
    /\ reachable' = reachable \ {u}
    /\ UNCHANGED <<socket_paths, known_keys, guard, agent_keys, agent_lock, pc,
                   op, req, stage, idx, identities, agent_sock_path, result, trace>>

UpstreamComesUp(u) ==
    /\ u \notin reachable
    /\ reachable' = reachable \cup {u}
    /\ UNCHANGED <<socket_paths, known_keys, guard, agent_keys, agent_lock, pc,
                   op, req, stage, idx, identities, agent_sock_path, result, trace>>

\* ------------------------------------------------------------------ history
\* The upstreams a refresh pass skips in this step (the warnings of
\* lib.rs:318, 333, 341) are remembered in `missed`.
Skipped(s) ==
    { trace'[s][j].sock : j \in { n \in DOMAIN trace'[s] :
          /\ n > Len(trace[s])
          /\ trace'[s][n].call = "request_identities"
          /\ trace'[s][n].out # "ok" } }

Observed ==
    /\ missed' = missed \cup UNION {Skipped(s) : s \in Sessions}
    /\ UNCHANGED <<step, keys_before, fwd, process>>

\* ----------------------------------------------------------- specifications
\* One client at a time, upstreams that come and go.
Client == "s1"

Next ==
    \/ RequestIdentities(Client) /\ Observed
    \/ \E k \in Keys : Sign(Client, k) /\ Observed
    \/ \E p \in Passphrases : Lock(Client, p) /\ Observed
    \/ \E p \in Passphrases : Unlock(Client, p) /\ Observed
    \/ GuardAcquired(Client) /\ Observed
    \/ ConnectResolved(Client) /\ Observed
    \/ RequestResolved(Client) /\ Observed
    \/ Return(Client) /\ Observed
    \/ \E u \in Paths : UpstreamGoesDown(u) /\ Observed
    \/ \E u \in Paths : UpstreamComesUp(u) /\ Observed

Spec == Init /\ [][Next]_vars

\* One client that locks and unlocks, over longer rosters.
NextBroadcast ==
    \/ \E p \in Passphrases : Lock(Client, p) /\ Observed
    \/ \E p \in Passphrases : Unlock(Client, p) /\ Observed
    \/ ConnectResolved(Client) /\ Observed
    \/ RequestResolved(Client) /\ Observed
    \/ Return(Client) /\ Observed
    \/ \E u \in Paths : UpstreamGoesDown(u) /\ Observed
    \/ \E u \in Paths : UpstreamComesUp(u) /\ Observed

SpecBroadcast ==
    InitWith(SeqsUpTo(Paths, MaxBroadcast)) /\ [][NextBroadcast]_vars

\* The client of mux_lock_unlock and mux_lock_unlock_multiple_agents
\* (tests/ssh-agent-integration.rs:139-201): list, lock, list, unlock, list,
\* every upstream reachable; a call that fails ends the test.
TestCall ==
    /\ CASE step \in {0, 2, 4} -> RequestIdentities(Client)
         [] step = 1 -> Lock(Client, TestPassphrase)
         [] step = 3 -> Unlock(Client, TestPassphrase)
         [] OTHER -> FALSE
    /\ UNCHANGED <<missed, step, keys_before, fwd, process>>

TestReply ==
    /\ result[Client].tag = "Ok"
    /\ Return(Client)
    /\ step' = step + 1
    /\ keys_before' = IF step = 0 THEN result[Client].ids ELSE keys_before
    /\ UNCHANGED <<missed, fwd, process>>

NextLockTest ==
    \/ TestCall
    \/ GuardAcquired(Client) /\ Observed
    \/ ConnectResolved(Client) /\ Observed
    \/ RequestResolved(Client) /\ Observed
    \/ TestReply

SpecLockTest == Init /\ [][NextLockTest]_vars

\* Every session at once, each upstream reachable or not for the whole run.
InitMux ==
    /\ InitWith({q \in SeqsUpTo(Paths, MaxRoster) : Len(q) = MaxRoster})

NextMux ==
    \/ \E s \in Sessions : RequestIdentities(s) /\ Observed
    \/ \E s \in Sessions, k \in Keys : Sign(s, k) /\ Observed
    \/ \E s \in Sessions, p \in Passphrases : Lock(s, p) /\ Observed
    \/ \E s \in Sessions, p \in Passphrases : Unlock(s, p) /\ Observed
    \/ \E s \in Sessions : GuardAcquired(s) /\ Observed
    \/ \E s \in Sessions : ConnectResolved(s) /\ Observed
    \/ \E s \in Sessions : RequestResolved(s) /\ Observed
    \/ \E s \in Sessions : Return(s) /\ Observed

SpecMux == InitMux /\ [][NextMux]_vars

\* One client that asks for extensions, adds identities, locks and unlocks.
InitForward == Listening(SeqsUpTo(Paths, MaxRoster), Paths \cup {NoPath})

NextForward ==
    \/ \E name \in ExtensionNames : Extension(Client, name)
    \/ \E k \in Keys : AddIdentity(Client, k)
    \/ BindConnectResolved(Client)
    \/ BindRequestResolved(Client)
    \/ AddConnectResolved(Client)
    \/ AddRequestResolved(Client)
    \/ Lock(Client, TestPassphrase) /\ Observed
    \/ Unlock(Client, TestPassphrase) /\ Observed
    \/ ConnectResolved(Client) /\ Observed
    \/ RequestResolved(Client) /\ Observed
    \/ Return(Client) /\ Observed
    \/ \E u \in Paths : UpstreamGoesDown(u) /\ Observed
    \/ \E u \in Paths : UpstreamComesUp(u) /\ Observed

SpecForward == InitForward /\ [][NextForward]_vars

\* The scenario roster [A, B] with forwarding target B, every upstream
\* reachable: one client lists, signs and adds K3 in any order.
InitScenario == ListeningWith({<<"A", "B">>}, {"B"}, ScenarioKeys)

NextScenario ==
    \/ AddIdentity(Client, "K3")
    \/ AddConnectResolved(Client)
    \/ AddRequestResolved(Client)
    \/ RequestIdentities(Client) /\ Observed
    \/ \E k \in Keys : Sign(Client, k) /\ Observed
    \/ GuardAcquired(Client) /\ Observed
    \/ ConnectResolved(Client) /\ Observed
    \/ RequestResolved(Client) /\ Observed
    \/ Return(Client) /\ Observed

SpecScenario == InitScenario /\ [][NextScenario]_vars

\* The process from its start: main reads the configuration, runs, reloads.
InitMain ==
    /\ driver = "parse"
    /\ config = DefaultConfig
    /\ sock_file \in {"absent", "stale", "other"}
    /\ socket_paths = <<>>
    /\ added_keys_sock = NoPath
    /\ known_keys = {}
    /\ this_cache = NoCache
    /\ caches = 0
    /\ cache_of = [s \in Sessions |-> NoCache]
    /\ Idle(HeldKeys)

NextMain ==
    \/ ParseConfig
    \/ Run
    \/ \E s \in Sessions : NewSession(s)
    \/ \E s \in Sessions : SessionEnds(s)
    \/ ServeError
    \/ SigInt
    \/ SigTerm
    \/ SigHup

SpecMain == InitMain /\ [][NextMain]_vars

\* One client with every kind of request while the other sessions list and
\* sign, over the roster [A, B] with target B; any of the upstreams may be
\* silent for the whole run.
InitLive ==
    /\ socket_paths = <<"A", "B">>
    /\ added_keys_sock = "B"
    /\ config = ConfigOf(socket_paths, added_keys_sock)
    /\ driver = "listen"
    /\ sock_file = "ours"
    /\ known_keys = {}
    /\ this_cache = 1
    /\ caches = 1
    /\ cache_of = [s \in Sessions |-> 1]
    /\ IdleAmong(HeldKeys, SUBSET Paths)

\* What a session does once its request has arrived
Serve(s) ==
    \/ GuardAcquired(s) /\ Observed
    \/ ConnectResolved(s) /\ Observed
    \/ RequestResolved(s) /\ Observed
    \/ BindConnectResolved(s)
    \/ BindRequestResolved(s)
    \/ AddConnectResolved(s)
    \/ AddRequestResolved(s)

NextLive ==
    \/ \E s \in Sessions : RequestIdentities(s) /\ Observed
    \/ \E s \in Sessions : Sign(s, "K1") /\ Observed
    \/ Lock(Client, TestPassphrase) /\ Observed
    \/ Unlock(Client, TestPassphrase) /\ Observed
    \/ Extension(Client, SessionBind)
    \/ AddIdentity(Client, "K1")
    \/ \E s \in Sessions : Serve(s)
    \/ \E s \in Sessions : Return(s) /\ Observed

\* Timeouts fire and answers arrive: an await that can be resolved is resolved
\* in the end; the guard is handed to the sessions that wait for it in turn
\* (tokio's Mutex is fair), so none of them is passed over forever.
Fairness ==
    \A s \in Sessions :
        /\ SF_vars(GuardAcquired(s) /\ Observed)
        /\ WF_vars(ConnectResolved(s) /\ Observed)
        /\ WF_vars(RequestResolved(s) /\ Observed)
        /\ WF_vars(BindConnectResolved(s))
        /\ WF_vars(BindRequestResolved(s))
        /\ WF_vars(AddConnectResolved(s))
        /\ WF_vars(AddRequestResolved(s))

SpecLive == InitLive /\ [][NextLive]_vars /\ Fairness

\* One client that lists, signs, locks, unlocks and binds sessions.
NextOrder ==
    \/ Next
    \/ Extension(Client, SessionBind)
    \/ BindConnectResolved(Client)
    \/ BindRequestResolved(Client)

SpecOrder == Init /\ [][NextOrder]_vars

\* One client with every kind of request, upstreams that come and go.
NextFrame ==
    \/ NextForward
    \/ RequestIdentities(Client) /\ Observed
    \/ Sign(Client, "K2") /\ Observed
    \/ GuardAcquired(Client) /\ Observed

SpecFrame == InitForward /\ [][NextFrame]_vars

\* ---------------------------------------------------- reading a request's log
IsContact(c) == c.sock # NoPath

IsAnswer(c) == c.call = "request_identities" /\ c.out = "ok"

IsSkip(c) == c.call = "request_identities" /\ c.out # "ok"

IsForward(c) == c.call = "sign"

Contacts(tr) == SelectSeq(tr, IsContact)

RECURSIVE IdsOf(_)
IdsOf(tr) == IF tr = <<>> THEN <<>> ELSE Head(tr).ids \o IdsOf(Tail(tr))

\* The keys the upstreams returned in the pass logged in tr
Returned(tr) == UNION {Range(tr[j].ids) : j \in {n \in DOMAIN tr : IsAnswer(tr[n])}}

\* The log entries of the pass in which an upstream returned k
ReturnedBy(tr, k) == {j \in DOMAIN tr : IsAnswer(tr[j]) /\ k \in Range(tr[j].ids)}

HasRefresh(tr) == \E j \in DOMAIN tr : tr[j] = RefreshingIdentities

\* Session s has run a refresh pass to its end in the request it is serving.
PassComplete(s) == HasRefresh(trace[s]) /\ guard # s

\* The contacts of tr are one pass over the roster: position 1, 2, ... once each
OnePassOver(tr, n) ==
    /\ Len(Contacts(tr)) = n
    /\ \A j \in 1..n : /\ Contacts(tr)[j].pos = j
                       /\ Contacts(tr)[j].sock = socket_paths[j]

CacheKeys == {e[1] : e \in known_keys}

\* ----------------------------------------------------------------- properties
\* C1: the list request_identities returns holds every public key an upstream
\* returned during the call, and holds no public key more than once.
C1_UnionWithoutDuplicates ==
    \A s \in Sessions :
        (pc[s] = "done" /\ op[s] = "request_identities") =>
            /\ Returned(trace[s]) \subseteq Range(result[s].ids)
            /\ \A k \in Keys : Count(result[s].ids, k) <= 1

\* C2: after a completed refresh pass the cache holds one upstream path per
\* public key, and the path recorded for a key is that of the last upstream in
\* roster order that returned it in that pass.
C2_LastUpstreamWins ==
    \A s \in Sessions :
        PassComplete(s) =>
            /\ \A k \in Keys : Cardinality({e \in known_keys : e[1] = k}) <= 1
            /\ \A e \in known_keys :
                   LET J == ReturnedBy(trace[s], e[1])
                   IN  /\ J # {}
                       /\ \E j \in J :
                              /\ \A i \in J : trace[s][i].pos <= trace[s][j].pos
                              /\ e[2] = socket_paths[trace[s][j].pos]

C2_Witness ==
    \E s \in Sessions, k \in Keys :
        /\ PassComplete(s)
        /\ \E i, j \in ReturnedBy(trace[s], k) :
               /\ trace[s][i].pos < trace[s][j].pos
               /\ trace[s][i].sock # trace[s][j].sock
               /\ <<k, trace[s][j].sock>> \in known_keys

\* C3: request_identities succeeds whatever each upstream does, and returns the
\* identity lists of the upstreams that answered, concatenated in roster order
\* (the empty list when the roster is empty or no upstream answers).
C3_ConcatenationOfAnswers ==
    \A s \in Sessions :
        (pc[s] = "done" /\ op[s] = "request_identities") =>
            /\ OnePassOver(trace[s], Len(socket_paths))
            /\ result[s] = OkIds(IdsOf(SelectSeq(trace[s], IsAnswer)))

C3_Witness ==
    \E s \in Sessions :
        /\ pc[s] = "done" /\ op[s] = "request_identities"
        /\ result[s].tag = "Ok" /\ Len(result[s].ids) = 2
        /\ \E i, j \in DOMAIN trace[s] :
               /\ i < j
               /\ trace[s][i].out = "connect_timed_out"
               /\ IsAnswer(trace[s][j])

\* C4: after a completed refresh pass the keys of the cache are the keys the
\* upstreams returned in that pass, and no others.
C4_CacheIsThePass ==
    \A s \in Sessions : PassComplete(s) => CacheKeys = Returned(trace[s])

C4_Witness ==
    \E s \in Sessions : \E j \in DOMAIN trace[s] :
        /\ PassComplete(s)
        /\ IsSkip(trace[s][j])
        /\ trace[s][j].sock \in missed
        /\ CacheKeys # {}
        /\ \E k \in Range(agent_keys[trace[s][j].sock]) : k \notin CacheKeys

\* C5: nothing an upstream did in earlier passes keeps a pass from contacting
\* it: a refresh pass (of request_identities or of a sign that missed) contacts
\* every upstream of the roster, an upstream that is reachable when contacted
\* answers and has its keys recorded in the cache, and the sign that follows
\* is answered by the upstream the cache names.
C5_PassContactsAll ==
    \A s \in Sessions :
        PassComplete(s) =>
            /\ OnePassOver(SelectSeq(trace[s], LAMBDA c : c.call # "sign"),
                           Len(socket_paths))
            /\ \A j \in DOMAIN trace[s] :
                   IsAnswer(trace[s][j]) =>
                       \A k \in Range(trace[s][j].ids) : k \in CacheKeys

C5_ReachableIsRecorded ==
    \A s \in Sessions :
        /\ (pc[s] = "connect" /\ Target(s) \in reachable /\ pc'[s] # pc[s])
               => pc'[s] = "request" /\ idx'[s] = idx[s]
        /\ (pc[s] = "request" /\ stage[s] = "refresh" /\ Target(s) \in reachable
            /\ trace'[s] # trace[s])
               => \A k \in Range(AgentIdentities(Target(s))) :
                      <<k, Target(s)>> \in known_keys'
        /\ (pc[s] = "request" /\ stage[s] = "forward" /\ Target(s) \in reachable
            /\ AgentSigns(Target(s), req[s]) /\ pc'[s] # pc[s])
               => result'[s] = OkSignature(Target(s))

C5_NoNegativeCaching == []C5_PassContactsAll /\ [][C5_ReachableIsRecorded]_vars

\* a sign that missed the cache, refreshed, and was signed by an upstream that
\* an earlier pass had skipped and that alone holds the key
C5_Witness ==
    \E s \in Sessions, u \in missed :
        /\ pc[s] = "done" /\ op[s] = "sign"
        /\ HasRefresh(trace[s])
        /\ \A j \in DOMAIN trace[s] : trace[s][j].sock = u => trace[s][j].out = "ok"
        /\ \A v \in Paths \ {u} : req[s] \notin Range(agent_keys[v])
        /\ <<req[s], u>> \in known_keys
        /\ result[s] = OkSignature(u)

\* C6 as stated: a sign for a key that no upstream of the roster advertises
\* fails with the not-found error, and no sign request reaches an upstream.
Advertised(k) ==
    \E i \in DOMAIN socket_paths : k \in Range(AgentIdentities(socket_paths[i]))

C6_UnadvertisedKeyNotFound ==
    \A s \in Sessions :
        (pc[s] = "done" /\ op[s] = "sign" /\ ~Advertised(req[s])) =>
            /\ result[s] = Err(NoAgentFound)
            /\ \A j \in DOMAIN trace[s] : ~IsForward(trace[s][j])

\* C6 as amended: a sign for a key that is not in the cache and that no
\* upstream returns in the refresh-on-miss pass fails with the not-found error,
\* and its only upstream contacts are those of that one pass, each upstream of
\* the roster once, for request_identities.
C6_MissThenNotFound ==
    \A s \in Sessions :
        (pc[s] = "done" /\ op[s] = "sign" /\ HasRefresh(trace[s])
         /\ req[s] \notin Returned(trace[s])) =>
            /\ result[s] = Err(NoAgentFound)
            /\ OnePassOver(trace[s], Len(socket_paths))
            /\ \A j \in DOMAIN trace[s] :
                   IsContact(trace[s][j]) => trace[s][j].call = "request_identities"
            /\ Cardinality({j \in DOMAIN trace[s] : ~IsContact(trace[s][j])}) = 1

C6_Witness ==
    \E s \in Sessions :
        /\ pc[s] = "done" /\ op[s] = "sign"
        /\ result[s] = Err(NoAgentFound)
        /\ Len(socket_paths) = 2
        /\ \E j \in DOMAIN trace[s] : IsAnswer(trace[s][j]) /\ trace[s][j].ids # <<>>

\* C7: a sign whose key the cache maps to an owner contacts that upstream and
\* no other, once; a failure to connect to it or of its sign call is the
\* failure of the sign call.
C7_OwnerOnly ==
    \A s \in Sessions :
        op[s] = "sign" =>
            LET fw == SelectSeq(trace[s], IsForward)
            IN  /\ Len(fw) <= 1
                /\ \A j \in DOMAIN fw : fw[j].sock = agent_sock_path[s]
                /\ (pc[s] = "done" /\ agent_sock_path[s] # NoPath) =>
                       /\ Len(fw) = 1
                       /\ result[s] = IF fw[1].out = "ok"
                                      THEN OkSignature(agent_sock_path[s])
                                      ELSE Err(fw[1].out)
                       /\ ~HasRefresh(trace[s]) =>
                              /\ Len(trace[s]) = 1
                              /\ <<req[s], agent_sock_path[s]>> \in known_keys

\* the owner is down and the sign fails, while the other upstream of the
\* roster is reachable and holds the key
C7_Witness ==
    \E s \in Sessions, v \in Paths :
        /\ pc[s] = "done" /\ op[s] = "sign"
        /\ ~HasRefresh(trace[s])
        /\ result[s] = Err("io")
        /\ v # agent_sock_path[s]
        /\ v \in Range(socket_paths) /\ v \in reachable
        /\ AgentSigns(v, req[s])

\* C8: lock and unlock contact the upstreams in roster order and stop at the
\* first one that fails: the call returns that failure, every upstream before
\* it has answered the call, none after it is contacted, and the lock state of
\* an upstream changes only in the step in which it answers the call.
C8_BroadcastOutcome ==
    \A s \in Sessions :
        (pc[s] = "done" /\ op[s] \in {"lock", "unlock"}) =>
            LET tr == trace[s]
                n == Len(tr)
            IN  /\ n <= Len(socket_paths)
                /\ \A j \in 1..n : /\ tr[j].pos = j
                                   /\ tr[j].sock = socket_paths[j]
                                   /\ tr[j].call = op[s]
                /\ \A j \in 1..(n - 1) : tr[j].out = "ok"
                /\ IF result[s].tag = "Ok"
                   THEN n = Len(socket_paths) /\ \A j \in 1..n : tr[j].out = "ok"
                   ELSE n >= 1 /\ tr[n].out # "ok" /\ result[s] = Err(tr[n].out)

C8_BroadcastFrame ==
    \A u \in Paths :
        agent_lock'[u] # agent_lock[u] =>
            \E s \in Sessions :
                /\ pc[s] = "request" /\ stage[s] = "broadcast"
                /\ socket_paths[idx[s]] = u
                /\ agent_lock'[u] = (IF op[s] = "lock" THEN req[s] ELSE NoLock)
                /\ trace'[s] = Append(trace[s], Contact(idx[s], u, op[s], "ok", <<>>))
                /\ \A v \in Paths \ {u} : agent_lock'[v] = agent_lock[v]

C8_FailFast == []C8_BroadcastOutcome /\ [][C8_BroadcastFrame]_vars

\* a lock that fails at the second of three upstreams: the first is locked,
\* the third is another upstream and is left unlocked
C8_Witness ==
    \E s \in Sessions :
        /\ pc[s] = "done" /\ op[s] = "lock"
        /\ Len(socket_paths) = 3 /\ Len(trace[s]) = 2
        /\ result[s] = Err(RequestTimedOut)
        /\ agent_lock[socket_paths[1]] = req[s]
        /\ socket_paths[3] # socket_paths[1]
        /\ agent_lock[socket_paths[3]] = NoLock

\* C9: with every upstream reachable, after a lock that succeeded every
\* upstream is locked and request_identities returns no identity and leaves
\* the cache empty; after the unlock with the same passphrase
\* request_identities returns the identities it returned before the lock.
C9_LockThenList ==
    pc[Client] = "done" =>
        /\ (step = 1 /\ result[Client].tag = "Ok") =>
               \A i \in DOMAIN socket_paths : agent_lock[socket_paths[i]] = req[Client]
        /\ step = 2 => result[Client] = OkIds(<<>>) /\ known_keys = {}
        /\ step = 3 => result[Client] = OkUnit
        /\ step = 4 => result[Client] = OkIds(keys_before)

C9_Witness ==
    /\ pc[Client] = "done" /\ step = 4
    /\ Len(socket_paths) = 2
    /\ Len(keys_before) = 4
    /\ result[Client].ids = keys_before

\* C10: whenever a lock call returns success every upstream of the roster is
\* locked at that moment, and whenever an unlock call returns success every
\* upstream is unlocked, whatever the other sessions do meanwhile.
C10_AllOrNothing ==
    [][\A s \in Sessions :
          (pc[s] # "done" /\ pc'[s] = "done" /\ result'[s].tag = "Ok") =>
              /\ op'[s] = "lock" =>
                     \A i \in DOMAIN socket_paths : agent_lock'[socket_paths[i]] # NoLock
              /\ op'[s] = "unlock" =>
                     \A i \in DOMAIN socket_paths : agent_lock'[socket_paths[i]] = NoLock]_vars

\* C11: a session-bind@openssh.com extension request returns success with an
\* empty payload exactly when some upstream of the roster answered it with
\* success (with or without a payload) during the call, whatever the others
\* did; otherwise, and with an empty roster, it fails with the
\* unsupported-operation error.
C11_AnyUpstreamSucceeds ==
    \A s \in Sessions :
        (pc[s] = "done" /\ op[s] = "extension" /\ req[s] = SessionBind) =>
            result[s] =
                IF \E j \in DOMAIN trace[s] :
                       /\ trace[s][j].sock \in Range(socket_paths)
                       /\ trace[s][j].out \in {"ok", "ok_payload"}
                THEN OkNone
                ELSE Err(Failure)

\* the first upstream succeeds with a payload, the second says unsupported
C11_Witness ==
    \E s \in Sessions :
        /\ pc[s] = "done" /\ op[s] = "extension" /\ req[s] = SessionBind
        /\ Len(trace[s]) = 2
        /\ trace[s][1].out = "ok_payload"
        /\ trace[s][2].out = Failure
        /\ result[s] = OkNone

\* C12: an extension request for another name than session-bind@openssh.com
\* contacts no upstream and is answered in the step it arrives: the query
\* with the list that holds session-bind@openssh.com alone, any other name
\* with the unsupported-operation error.
C12_AnsweredLocally ==
    \A s \in Sessions :
        (op[s] = "extension" /\ req[s] # SessionBind) =>
            /\ pc[s] = "done"
            /\ trace[s] = <<>>
            /\ result[s] = IF req[s] = "query" THEN OkQueryResponse ELSE Err(Failure)

C12_Witness ==
    \E s \in Sessions :
        /\ pc[s] = "done" /\ op[s] = "extension" /\ req[s] = "other@example.com"
        /\ result[s] = Err(Failure)
        /\ Len(socket_paths) = 2 /\ Range(socket_paths) \subseteq reachable

\* C13: without a forwarding target add_identity fails in the step it arrives
\* with the not-configured failure and opens no upstream connection, whatever
\* the roster is.
C13_NotConfigured ==
    \A s \in Sessions :
        (op[s] = "add_identity" /\ added_keys_sock = NoPath) =>
            /\ pc[s] = "done"
            /\ trace[s] = <<>>
            /\ result[s] = Err(Failure)

C13_Witness ==
    \E s \in Sessions :
        /\ pc[s] = "done" /\ op[s] = "add_identity" /\ added_keys_sock = NoPath
        /\ result[s] = Err(Failure)
        /\ Len(socket_paths) = 2 /\ Range(socket_paths) \subseteq reachable

\* C14: with a forwarding target add_identity contacts that upstream and no
\* other, its result is that upstream's result, after a success the key is in
\* the target's identity list, and no other upstream's identities change.
C14_Outcome ==
    \A s \in Sessions :
        (pc[s] = "done" /\ op[s] = "add_identity" /\ added_keys_sock # NoPath) =>
            /\ Len(trace[s]) = 1
            /\ trace[s][1].sock = added_keys_sock
            /\ trace[s][1].call = "add_identity"
            /\ result[s] = IF trace[s][1].out = "ok" THEN OkUnit
                           ELSE Err(trace[s][1].out)
            /\ result[s].tag = "Ok" => req[s] \in Range(agent_keys[added_keys_sock])

C14_Frame ==
    \A v \in Paths :
        agent_keys'[v] # agent_keys[v] =>
            /\ v = added_keys_sock
            /\ \E s \in Sessions :
                   /\ pc[s] = "add_request" /\ result'[s] = OkUnit
                   /\ Range(agent_keys'[v]) = Range(agent_keys[v]) \cup {req[s]}

C14_TargetOnly == []C14_Outcome /\ [][C14_Frame]_vars

\* K1 is added through the multiplexer and lands in B, the second upstream
C14_Witness ==
    \E s \in Sessions :
        /\ pc[s] = "done" /\ op[s] = "add_identity" /\ req[s] = "K1"
        /\ socket_paths = <<"A", "B">> /\ added_keys_sock = "B"
        /\ result[s] = OkUnit
        /\ agent_keys["B"] = <<"K2", "K3", "K1">>
        /\ agent_keys["A"] = <<"K1", "K2">>

\* C15: with roster [A holding K1, B holding K2] and forwarding target B, once
\* add_identity(K3) has succeeded every request_identities returns K3 and
\* leaves K3 mapped to B in the cache, every sign for K3 is forwarded to B,
\* whether or not a request_identities came in between, and a sign for K1 is
\* forwarded to A.
C15_AddedKeyIsRouted ==
    LET c == Client
        fw == SelectSeq(trace[c], IsForward)
    IN  pc[c] = "done" =>
            /\ (op[c] = "request_identities" /\ "K3" \in Range(agent_keys["B"])) =>
                   /\ "K3" \in Range(result[c].ids)
                   /\ HashMapGet(known_keys, "K3") = "B"
            /\ (op[c] = "sign" /\ req[c] = "K3" /\ "K3" \in Range(agent_keys["B"])) =>
                   /\ Len(fw) = 1 /\ fw[1].sock = "B"
                   /\ result[c] = OkSignature("B")
            /\ (op[c] = "sign" /\ req[c] = "K1") =>
                   /\ Len(fw) = 1 /\ fw[1].sock = "A"
                   /\ result[c] = OkSignature("A")

\* K3 is signed by B through a cache that was filled before K3 was added
C15_Witness ==
    /\ pc[Client] = "done" /\ op[Client] = "sign" /\ req[Client] = "K3"
    /\ result[Client] = OkSignature("B")
    /\ HasRefresh(trace[Client])
    /\ known_keys = {<<"K1", "A">>, <<"K2", "B">>, <<"K3", "B">>}
    /\ agent_keys["B"] = <<"K2", "K3">>

\* C16: the socket file of a listener this process bound exists only while
\* its run is listening: whenever the driver has exited (serve error, SIGINT,
\* SIGTERM, a reload whose configuration is rejected), is reading the
\* configuration again after a reload, or is about to bind, that file is gone.
C16_FileRemovedOnRelease == sock_file = "ours" => driver = "listen"

C16_Released == {"parse", "select", "exit_ok", "parse_failed", "serve_failed"}

\* a run was bound and released, on each path by which a run ends
C16_Witness ==
    /\ caches >= 1
    /\ sock_file = "absent"
    /\ driver \in C16_Released

\* C17: a run that finds a file at the listen path, stale or of a live
\* listener, never gets to listen: the file stays as it is, no connection is
\* accepted, no cache is created, and the bind error ends main.
C17_Step ==
    (driver = "select" /\ sock_file # "absent") =>
        /\ driver' # "listen"
        /\ sock_file' = sock_file
        /\ caches' = caches
        /\ \A s \in Sessions : cache_of'[s] \in {cache_of[s], NoCache}
        /\ driver' \in {"select", "bind_failed", "exit_ok", "parse"}

C17_BindFailsOnExistingFile ==
    /\ [](driver = "bind_failed" => sock_file \in {"stale", "other"})
    /\ [][C17_Step]_vars

C17_Witness ==
    /\ driver = "bind_failed"
    /\ sock_file = "stale"
    /\ caches = 0
    /\ \A s \in Sessions : cache_of[s] = NoCache

\* C18: one cache serves the whole life of the process: the first run creates
\* it, no other is ever created, and every session's handle points to it.
C18_OneCacheForTheProcess ==
    /\ caches <= 1
    /\ driver = "listen" => this_cache = 1
    /\ \A s \in Sessions : cache_of[s] \in {NoCache, 1}

\* C19: a configuration main holds after Config::parse accepted it has no two
\* agents of one name and a target that, if set, names an enabled agent; the
\* roster given to run is the socket paths of its enabled agents in their
\* order, and the target given to run is absent or a path of that roster.
C19_RosterAndTarget ==
    driver \in {"select", "listen"} =>
        LET agents == config.agents
            roster == enabled_agent_socket_paths(config)
            target == added_keys_socket_path(config)
            en == {i \in DOMAIN agents : agents[i].enabled}
        IN  /\ \A i, j \in DOMAIN agents : agents[i].name = agents[j].name => i = j
            /\ config.add_new_keys_to # NoName =>
                   /\ \E i \in en : agents[i].name = config.add_new_keys_to
                   /\ target # NoPath
            /\ Len(roster) = Cardinality(en)
            /\ \A i \in en :
                   roster[Cardinality({j \in en : j <= i})] = agents[i].socket_path
            /\ target = NoPath \/ target \in Range(roster)
            /\ driver = "listen" =>
                   socket_paths = roster /\ added_keys_sock = target

\* the first agent is disabled, the second is the target and the whole roster
C19_Witness ==
    /\ driver = "listen"
    /\ Len(config.agents) = 2
    /\ ~config.agents[1].enabled
    /\ config.agents[2].enabled
    /\ config.agents[1].socket_path # config.agents[2].socket_path
    /\ config.add_new_keys_to = config.agents[2].name
    /\ socket_paths = <<config.agents[2].socket_path>>
    /\ added_keys_sock = socket_paths[1]

\* C20: a session in the middle of a refresh pass holds the guard; the cache
\* changes only in a step of the session that holds or takes the guard; and
\* in the step in which a sign looks its key up no other session is in the
\* middle of a pass, so the path it gets is the one the cache holds once that
\* step is done.
InPass(s) == stage[s] = "refresh" /\ pc[s] \in {"connect", "request"}

LooksUp(s) ==
    /\ op[s] = "sign"
    /\ \/ pc[s] = "lock_owned"
       \/ InPass(s)
    /\ ~InPass(s)'
    /\ pc'[s] # pc[s] \/ stage'[s] # stage[s]

C20_PassHoldsGuard == \A s \in Sessions : InPass(s) => guard = s

C20_Step ==
    /\ known_keys' # known_keys =>
           \E s \in Sessions :
               /\ guard = s \/ (guard = NoSession /\ pc[s] = "lock_owned")
               /\ trace'[s] # trace[s]
               /\ \A t \in Sessions \ {s} : UNCHANGED <<pc[t], trace[t]>>
    /\ \A s \in Sessions :
           LooksUp(s) =>
               /\ guard \in {s, NoSession}
               /\ \A t \in Sessions \ {s} : ~InPass(t)
               /\ IF HashMapContainsKey(known_keys', req[s])
                  THEN agent_sock_path'[s] = HashMapGet(known_keys', req[s])
                  ELSE result'[s] = Err(NoAgentFound)

C20_NoPartialCache == []C20_PassHoldsGuard /\ [][C20_Step]_vars

\* one session is halfway through a pass that has recorded the first upstream
\* only, while another waits for the guard to sign with a key of the second
C20_Witness ==
    \E s, t \in Sessions :
        /\ s # t
        /\ InPass(s) /\ idx[s] = 2 /\ known_keys # {}
        /\ pc[t] = "lock_owned" /\ op[t] = "sign"
        /\ ~HashMapContainsKey(known_keys, req[t])
        /\ req[t] \in Range(agent_keys[socket_paths[2]])

\* C21: sign holds the guard for the lookup only: a session that is
\* connecting to the owner or waiting for its signature does not hold the
\* guard, and a session that waits for the guard meanwhile can take it as soon
\* as no refresh pass holds it.
Forwarding(s) == stage[s] = "forward" /\ pc[s] \in {"connect", "request"}

C22_AtMostOnePass ==
    \A s \in Sessions :
        op[s] = "sign" =>
            /\ Cardinality({j \in DOMAIN trace[s] : trace[s][j] = RefreshingIdentities}) <= 1
            /\ ~HasRefresh(trace[s]) =>
                   \A j \in DOMAIN trace[s] : trace[s][j].call = "sign"
            /\ (HasRefresh(trace[s]) /\ pc[s] = "done") =>
                   OnePassOver(SelectSeq(trace[s], LAMBDA c : c.call # "sign"),
                               Len(socket_paths))

C22_Step ==
    \A s \in Sessions :
        /\ (op[s] = "sign" /\ pc[s] = "lock_owned" /\ pc'[s] # pc[s]) =>
               IF HashMapContainsKey(known_keys, req[s])
               THEN /\ known_keys' = known_keys
                    /\ trace'[s] = trace[s]
                    /\ stage'[s] = "forward"
                    /\ agent_sock_path'[s] = HashMapGet(known_keys, req[s])
               ELSE /\ HasRefresh(trace'[s])
                    /\ stage'[s] # "forward" \/ socket_paths = <<>>
        /\ (op[s] = "sign" /\ stage[s] = "forward") => known_keys' = known_keys

C22_RefreshOnlyOnMiss == []C22_AtMostOnePass /\ [][C22_Step]_vars

\* a sign that hit the cache and failed at the owner: no pass, the entry stays
C22_Witness ==
    \E s \in Sessions :
        /\ pc[s] = "done" /\ op[s] = "sign"
        /\ ~HasRefresh(trace[s])
        /\ result[s] = Err(UpstreamFailure)
        /\ <<req[s], agent_sock_path[s]>> \in known_keys
        /\ Cardinality(known_keys) = 3

\* C23: every request a session has received is answered in the end, with
\* upstreams that stay silent and with other sessions running, given that
\* timeouts fire and that the guard is handed on fairly.
C23_EveryRequestCompletes ==
    \A s \in Sessions : (pc[s] # "idle") ~> (pc[s] = "done")

\* a list has completed with both upstreams silent while the other session
\* waits for the guard
C23_Witness ==
    \E s, t \in Sessions :
        /\ s # t
        /\ reachable = {}
        /\ pc[s] = "done" /\ op[s] = "request_identities"
        /\ Len(trace[s]) = 3
        /\ pc[t] = "lock_owned"

\* C24: the upstream contacts of one refresh pass, of one lock or unlock and
\* of one session-bind broadcast are the entries 1, 2, ... of the roster in
\* that order, each once; a refresh pass and a session-bind broadcast that
\* have ended went through the whole roster, whatever the earlier entries did.
Looped(tr) == SelectSeq(tr, LAMBDA c : c.pos >= 1)

C24_RosterOrder ==
    \A s \in Sessions :
        LET cs == Looped(trace[s])
        IN  /\ Len(cs) <= Len(socket_paths)
            /\ \A j \in DOMAIN cs :
                   /\ cs[j].pos = j
                   /\ cs[j].sock = socket_paths[j]
                   /\ cs[j].call = (IF op[s] = "sign" THEN "request_identities"
                                    ELSE op[s])
            /\ (pc[s] = "done" /\ op[s] \in {"request_identities", "extension"}) =>
                   Len(cs) = Len(socket_paths)
            /\ (op[s] = "sign" /\ HasRefresh(trace[s]) /\ guard # s) =>
                   Len(cs) = Len(socket_paths)
            /\ (pc[s] = "done" /\ op[s] \in {"lock", "unlock"}
                /\ Len(cs) < Len(socket_paths)) =>
                   cs # <<>> /\ cs[Len(cs)].out # "ok"

\* a session-bind broadcast whose first upstream succeeded went on to the
\* second, another upstream, which failed
C24_Witness ==
    \E s \in Sessions :
        /\ pc[s] = "done" /\ op[s] = "extension"
        /\ Len(trace[s]) = 2
        /\ socket_paths[1] # socket_paths[2]
        /\ trace[s][1].out = "ok"
        /\ trace[s][2].out = "io"

\* C25: the reload signal drops the run, and with it the listener and its
\* file, in the step in which it is taken, before the configuration is read
\* again; the run that follows a run of this process therefore finds the path
\* free and binds; the configuration changes only when it is read, and the
\* roster and the target change only when a new run starts, to those of the
\* configuration read last.
C25_PathFreeAfterRelease ==
    (caches >= 1 /\ driver \in {"parse", "select"}) => sock_file = "absent"

C25_Step ==
    /\ (driver = "listen" /\ driver' = "parse") =>
           /\ sock_file' = "absent"
           /\ config' = config
    /\ config' # config => driver = "parse" /\ driver' = "select"
    /\ (driver = "select" /\ caches >= 1 /\ driver' \notin {"select", "parse", "exit_ok"}) =>
           driver' = "listen"
    /\ (socket_paths' # socket_paths \/ added_keys_sock' # added_keys_sock
        \/ this_cache' # this_cache) =>
           /\ driver = "select" /\ driver' = "listen"
           /\ this_cache' = this_cache + 1
           /\ socket_paths' = enabled_agent_socket_paths(config)
           /\ added_keys_sock' = added_keys_socket_path(config)

C25_ReloadReplacesTheRun == []C25_PathFreeAfterRelease /\ [][C25_Step]_vars

\* the second run listens with a roster, a first run's session still connected
C25_Witness ==
    /\ driver = "listen" /\ caches = 2 /\ this_cache = 2
    /\ sock_file = "ours"
    /\ Len(socket_paths) = 2
    /\ \E s \in Sessions : cache_of[s] = 1

\* C26: lock, unlock, extension and add_identity neither take the guard nor
\* touch the cache: from the step in which such a request arrives to the step
\* in which its reply is written the cache and the guard stay as they are,
\* whether the request succeeds or fails.
FrameOps == {"lock", "unlock", "extension", "add_identity"}

C26_NoGuard ==
    \A s \in Sessions :
        op[s] \in FrameOps => guard # s /\ pc[s] # "lock_owned"

C26_Step ==
    (\E s \in Sessions :
        /\ op[s] \in FrameOps \/ op'[s] \in FrameOps
        /\ <<pc[s], op[s], trace[s]>> # <<pc'[s], op'[s], trace'[s]>>)
    => UNCHANGED <<known_keys, guard>>

C26_CacheUntouched == []C26_NoGuard /\ [][C26_Step]_vars

\* a lock has locked both upstreams and the cache still routes their keys
C26_Witness ==
    \E s \in Sessions :
        /\ pc[s] = "done" /\ op[s] = "lock" /\ result[s] = OkUnit
        /\ Len(socket_paths) = 2
        /\ \A u \in Paths : agent_lock[u] # NoLock
        /\ Cardinality(known_keys) = 3

\* C27: the file at the listen path changes in two ways only: a bind that
\* succeeds on a free path creates it, and the release of the listener that
\* bound it removes it. A file that was there before, stale or of another
\* multiplexer, is still there after the bind has failed.
C27_Step ==
    sock_file' # sock_file =>
        \/ /\ sock_file = "absent" /\ sock_file' = "ours"
           /\ driver = "select" /\ driver' = "listen"
        \/ /\ sock_file = "ours" /\ sock_file' = "absent"
           /\ driver = "listen" /\ driver' # "listen"

C27_ForeignFileStays ==
    driver = "bind_failed" => (sock_file \in {"stale", "other"} /\ caches = 0)

C27_FailedBindLeavesTheFile == []C27_ForeignFileStays /\ [][C27_Step]_vars

\* the bind failed on the file of another multiplexer, which is still there
C27_Witness ==
    /\ driver = "bind_failed"
    /\ sock_file = "other"
    /\ Len(enabled_agent_socket_paths(config)) = 2

====
